---- MODULE Spec2Model ----
(***************************************************************************)
(* Text Splitter Pro (src/App.tsx, src/unnamed/part_001): the splitText    *)
(* segmentation-and-classification loop and the App component's handlers.  *)
(* Strings are sequences of one-character strings; positions are the       *)
(* 0-based indices of the source. MAX_CHARS, 4950 in the source, ranges    *)
(* over 1..MaxChunkLength so that texts of a few characters reach soft     *)
(* breaks, hard breaks and a marker cut in two.                            *)
(*                                                                         *)
(* SplitSpec / SplitSpecFair: one call of splitText, iteration by          *)
(* iteration. RunsSpec: successive calls. Spec: the App's upload, reset    *)
(* and copy handlers, with splitText applied as a function. ExportSpec /   *)
(* ExportSpecFair: upload, reset and handleExportAll with its timers.      *)
(***************************************************************************)
EXTENDS Integers, Sequences, FiniteSets, TLC

VARIABLES
  MAX_CHARS,         \* the chunk limit (module constant of the source, scaled)
  text,              \* splitText's argument
  run,               \* splitText's locals: result, currentPos, specialTriggered, sanitizedText, fileId
  pc,                \* position of the splitText activation: "idle", "loop", "done"
  cuts,              \* history: per iteration, currentPos before, endPos, currentPos after
  remembered,        \* history: one earlier completed run (its input and outcome)
  now,               \* Date.now()
  blocks,            \* useState<TextBlock[]>
  activeBlockIndex,  \* useState<number | null>
  totalChars,        \* useState<number>
  pendingUploads,    \* FileReader reads / extractions in flight
  pendingCopies,     \* clipboard writes in flight
  exports,           \* confirmed exports: blocks when triggered, timers pending, downloads made
  lastEvent          \* history: the handler (and outcome) of the last step

vars == <<MAX_CHARS, text, run, pc, cuts, remembered, now, blocks,
          activeBlockIndex, totalChars, pendingUploads, pendingCopies, exports,
          lastEvent>>

splitVars == <<text, run, pc, cuts, remembered>>

appVars == <<blocks, activeBlockIndex, totalChars, pendingUploads, pendingCopies, exports>>

-----------------------------------------------------------------------------
(* Bounds of the model *)

MaxChunkLength == 4

MaxTokens == 4

MaxDocTokens == 1

MaxClock == 1

MaxUploads == 1

MaxCopies == 1

MaxExports == 1

-----------------------------------------------------------------------------
(* Characters, the marker and the input texts *)

LF == "\n"

CR == "\r"

Marker == <<"[", "&", "$", "]">>

NORMAL == "NORMAL"

SPECIAL_TRIGGER == "SPECIAL_TRIGGER"

POST_SPECIAL == "POST_SPECIAL"

\* activeBlockIndex when no block is marked (null in the source)
Null == -1

Tokens == {<<"a">>, <<LF>>, <<CR, LF>>, <<CR>>, Marker, <<"[", "&">>, <<"$", "]">>}

RECURSIVE TextsOf(_)
TextsOf(n) ==
  IF n = 0 THEN {<<>>}
  ELSE LET S == TextsOf(n - 1) IN S \cup {s \o t : s \in S, t \in Tokens}

Texts == TextsOf(MaxTokens)

Docs == TextsOf(MaxDocTokens)

\* the documents uploaded to the App: an empty one, the marker alone, a line
\* before the marker (with a two-character line ending), a line after it
Files == {<<>>, Marker, <<"a", CR, LF>> \o Marker, Marker \o <<LF, "a">>}

-----------------------------------------------------------------------------
(* String primitives used by splitText *)

Min(a, b) == IF a < b THEN a ELSE b

\* s.slice(from, to) for 0 <= from
slice(s, from, to) ==
  LET a == Min(from, Len(s))
      b == Min(to, Len(s))
  IN IF a >= b THEN <<>> ELSE SubSeq(s, a + 1, b)

\* s.lastIndexOf(ch, fromIndex) for a one-character ch: the search runs backward
\* from fromIndex inclusive; -1 when there is none
lastIndexOf(s, ch, fromIndex) ==
  LET hits == {i \in 0..Min(fromIndex, Len(s) - 1) : s[i + 1] = ch}
  IN IF hits = {} THEN -1 ELSE CHOOSE i \in hits : \A j \in hits : j <= i

\* s.includes(sub)
includes(s, sub) ==
  \E i \in 0..(Len(s) - Len(sub)) : SubSeq(s, i + 1, i + Len(sub)) = sub

\* s[i] === '\n' (undefined past the end)
charIsLF(s, i) == i < Len(s) /\ s[i + 1] = LF

\* mutant of replaceCRLF: the regular expression without its g flag, so that only
\* the first pair is replaced
RECURSIVE replaceFirstCRLF(_)
replaceFirstCRLF(s) ==
  IF s = <<>> THEN <<>>
  ELSE IF Len(s) >= 2 /\ s[1] = CR /\ s[2] = LF
       THEN <<LF>> \o SubSeq(s, 3, Len(s))
       ELSE <<s[1]>> \o replaceFirstCRLF(Tail(s))

\* text.replace(/\r\n/g, '\n'): one left-to-right pass, matches do not overlap
\* and the output is not scanned again
RECURSIVE replaceCRLF(_)
replaceCRLF(s) ==
  IF s = <<>> THEN <<>>
  ELSE IF Len(s) >= 2 /\ s[1] = CR /\ s[2] = LF
       THEN <<LF>> \o replaceCRLF(SubSeq(s, 3, Len(s)))
       ELSE <<s[1]>> \o replaceCRLF(Tail(s))

-----------------------------------------------------------------------------
(* splitText *)

\* mutant of RunInit: the flag lives outside the function and keeps the value
\* the previous call left
RunInitStale(t, fid) ==
  [result |-> <<>>, currentPos |-> 0, specialTriggered |-> run.specialTriggered,
   sanitizedText |-> replaceCRLF(t), fileId |-> fid]

\* the locals as splitText sets them before its loop
RunInit(t, fid) ==
  [result |-> <<>>, currentPos |-> 0, specialTriggered |-> FALSE,
   sanitizedText |-> replaceCRLF(t), fileId |-> fid]

\* mutant of ChooseEnd: the line-break is searched forward from the tentative boundary
ChooseEndForward(s, currentPos) ==
  LET endPos == currentPos + MAX_CHARS
      hits == {i \in endPos..(Len(s) - 1) : s[i + 1] = LF}
  IN IF endPos < Len(s)
     THEN (IF hits # {} THEN CHOOSE i \in hits : \A j \in hits : i <= j ELSE endPos)
     ELSE Len(s)

\* mutant of ChooseEnd: the backward search starts one before the tentative boundary
ChooseEndExclusive(s, currentPos) ==
  LET endPos == currentPos + MAX_CHARS
      lastNewLine == lastIndexOf(s, LF, endPos - 1)
  IN IF endPos < Len(s)
     THEN (IF lastNewLine > currentPos THEN lastNewLine ELSE endPos)
     ELSE Len(s)

\* mutant of ChooseEnd: a line-break at currentPos itself qualifies (>= for >)
ChooseEndAtPos(s, currentPos) ==
  LET endPos == currentPos + MAX_CHARS
      lastNewLine == lastIndexOf(s, LF, endPos)
  IN IF endPos < Len(s)
     THEN (IF lastNewLine >= currentPos THEN lastNewLine ELSE endPos)
     ELSE Len(s)

\* endPos of one iteration
ChooseEnd(s, currentPos) ==
  LET endPos == currentPos + MAX_CHARS
      lastNewLine == lastIndexOf(s, LF, endPos)
  IN IF endPos < Len(s)
     THEN (IF lastNewLine > currentPos THEN lastNewLine ELSE endPos)
     ELSE Len(s)

\* mutant of containsSpecial: the marker is looked for in the text up to endPos
containsSpecialPrefix(s, currentPos, endPos) == includes(slice(s, 0, endPos), Marker)

\* does this chunk trigger: chunk.includes('[&$]')
containsSpecial(s, currentPos, endPos) == includes(slice(s, currentPos, endPos), Marker)

\* the block's type
Classify(specialTriggered, contains) ==
  IF specialTriggered THEN POST_SPECIAL
  ELSE IF contains THEN SPECIAL_TRIGGER
  ELSE NORMAL

\* mutant of NextTriggered: the flag is never set
NextTriggeredNever(specialTriggered, contains) == specialTriggered

\* specialTriggered after the iteration
NextTriggered(specialTriggered, contains) == specialTriggered \/ contains

\* mutant of Advance: one character is skipped at every boundary inside the text
AdvanceAlways(s, endPos) == IF endPos < Len(s) THEN endPos + 1 ELSE endPos

\* currentPos after the iteration
Advance(s, endPos) == IF charIsLF(s, endPos) THEN endPos + 1 ELSE endPos

\* one pass of the while body
Iterate(r) ==
  LET s == r.sanitizedText
      endPos == ChooseEnd(s, r.currentPos)
      chunk == slice(s, r.currentPos, endPos)
      contains == containsSpecial(s, r.currentPos, endPos)
      block == [id |-> <<r.fileId, Len(r.result), Len(chunk)>>,
                content |-> chunk,
                type |-> Classify(r.specialTriggered, contains)]
  IN [r EXCEPT !.result = Append(@, block),
               !.specialTriggered = NextTriggered(@, contains),
               !.currentPos = Advance(s, endPos)]

LoopCond(r) == r.currentPos < Len(r.sanitizedText)

\* the whole loop, run to its exit
RECURSIVE Loop(_)
Loop(r) == IF LoopCond(r) THEN Loop(Iterate(r)) ELSE r

splitText(t, fid) == Loop(RunInit(t, fid)).result

\* content and category of every block, identifiers left out
Outcome(bs) == [i \in 1..Len(bs) |-> [content |-> bs[i].content, type |-> bs[i].type]]

-----------------------------------------------------------------------------
(* One call of splitText, iteration by iteration *)

AppInitial ==
  /\ blocks = <<>>
  /\ activeBlockIndex = Null
  /\ totalChars = 0
  /\ pendingUploads = 0
  /\ pendingCopies = <<>>
  /\ exports = <<>>

SplitInit ==
  /\ MAX_CHARS \in 1..MaxChunkLength
  /\ text \in Texts
  /\ now = 0
  /\ run = RunInit(text, now)
  /\ pc = "loop"
  /\ cuts = <<>>
  /\ remembered = <<>>
  /\ lastEvent = "splitText"
  /\ AppInitial

LoopBody ==
  /\ pc = "loop"
  /\ LoopCond(run)
  /\ run' = Iterate(run)
  /\ cuts' = Append(cuts, [from |-> run.currentPos,
                           to |-> ChooseEnd(run.sanitizedText, run.currentPos),
                           next |-> run'.currentPos])
  /\ UNCHANGED <<MAX_CHARS, text, pc, remembered, now, lastEvent>>
  /\ UNCHANGED appVars

Return ==
  /\ pc = "loop"
  /\ ~LoopCond(run)
  /\ pc' = "done"
  /\ UNCHANGED <<MAX_CHARS, text, run, cuts, remembered, now, lastEvent>>
  /\ UNCHANGED appVars

SplitNext == LoopBody \/ Return

SplitSpec == SplitInit /\ [][SplitNext]_vars

SplitSpecFair == SplitSpec /\ WF_vars(SplitNext)

-----------------------------------------------------------------------------
(* Repeated calls of splitText, one after the other *)

NoRun ==
  [result |-> <<>>, currentPos |-> 0, specialTriggered |-> FALSE,
   sanitizedText |-> <<>>, fileId |-> 0]

SplitIdle ==
  /\ text = <<>>
  /\ run = NoRun
  /\ pc = "idle"
  /\ cuts = <<>>
  /\ remembered = <<>>

RunsInit ==
  /\ MAX_CHARS \in 1..MaxChunkLength
  /\ now = 0
  /\ lastEvent = "splitText"
  /\ SplitIdle
  /\ AppInitial

\* splitText(t) is called: the locals are created anew
Call ==
  /\ pc \in {"idle", "done"}
  /\ \E t \in Docs : \E clock \in now..MaxClock :
       /\ now' = clock
       /\ text' = t
       /\ run' = RunInit(t, clock)
  /\ pc' = "loop"
  /\ cuts' = <<>>
  /\ UNCHANGED <<MAX_CHARS, remembered, lastEvent>>
  /\ UNCHANGED appVars

\* history: keep the input and the blocks of one completed call
Remember ==
  /\ pc = "done"
  /\ remembered = <<>>
  /\ remembered' = <<[text |-> text, result |-> run.result]>>
  /\ UNCHANGED <<MAX_CHARS, text, run, pc, cuts, now, lastEvent>>
  /\ UNCHANGED appVars

RunsNext == Call \/ LoopBody \/ Return \/ Remember

RunsSpec == RunsInit /\ [][RunsNext]_vars

-----------------------------------------------------------------------------
(* The App component: uploads, reset, copies and exports *)

Init ==
  /\ MAX_CHARS \in 1..MaxChunkLength
  /\ now = 0
  /\ lastEvent = "mount"
  /\ SplitIdle
  /\ AppInitial

\* handleFileUpload: without a file it returns; with one it starts the read
handleFileUpload ==
  /\ \E hasFile \in BOOLEAN :
       IF hasFile
       THEN /\ pendingUploads < MaxUploads
            /\ pendingUploads' = pendingUploads + 1
            /\ lastEvent' = "fileSelected"
       ELSE /\ pendingUploads' = pendingUploads
            /\ lastEvent' = "noFile"
  /\ UNCHANGED <<blocks, activeBlockIndex, totalChars, pendingCopies, now, exports, MAX_CHARS>>
  /\ UNCHANGED splitVars

\* reader.onload, extraction resolved with the text t
OnLoadExtracted ==
  /\ pendingUploads > 0
  /\ \E t \in Files : \E clock \in now..MaxClock :
       /\ now' = clock
       /\ totalChars' = Len(t)
       /\ blocks' = splitText(t, clock)
  /\ activeBlockIndex' = Null
  /\ pendingUploads' = pendingUploads - 1
  /\ lastEvent' = "uploadOk"
  /\ UNCHANGED <<pendingCopies, exports, MAX_CHARS>>
  /\ UNCHANGED splitVars

\* mutant of OnLoadFailed: the catch block clears what is shown
OnLoadFailedClears ==
  /\ pendingUploads > 0
  /\ pendingUploads' = pendingUploads - 1
  /\ blocks' = <<>>
  /\ totalChars' = 0
  /\ lastEvent' = "uploadFailed"
  /\ UNCHANGED <<activeBlockIndex, pendingCopies, now, exports, MAX_CHARS>>
  /\ UNCHANGED splitVars

\* reader.onload, extraction rejected: the catch block logs and alerts
OnLoadFailed ==
  /\ pendingUploads > 0
  /\ pendingUploads' = pendingUploads - 1
  /\ lastEvent' = "uploadFailed"
  /\ UNCHANGED <<blocks, activeBlockIndex, totalChars, pendingCopies, now, exports, MAX_CHARS>>
  /\ UNCHANGED splitVars

\* resetApp: the confirm dialog is answered
resetApp ==
  /\ \E confirmed \in BOOLEAN :
       IF confirmed
       THEN /\ blocks' = <<>>
            /\ totalChars' = 0
            /\ activeBlockIndex' = Null
            /\ lastEvent' = "reset"
       ELSE /\ UNCHANGED <<blocks, totalChars, activeBlockIndex>>
            /\ lastEvent' = "resetDeclined"
  /\ UNCHANGED <<pendingUploads, pendingCopies, now, exports, MAX_CHARS>>
  /\ UNCHANGED splitVars

\* handleButtonClick(index), up to its await: the clipboard write is started
handleButtonClick ==
  /\ Len(pendingCopies) < MaxCopies
  /\ \E index \in 0..(Len(blocks) - 1) :
       /\ ~(index >= Len(blocks))
       /\ pendingCopies' = Append(pendingCopies, [index |-> index, block |-> blocks[index + 1]])
  /\ lastEvent' = "copyRequested"
  /\ UNCHANGED <<blocks, activeBlockIndex, totalChars, pendingUploads, now, exports, MAX_CHARS>>
  /\ UNCHANGED splitVars

\* s without its k-th element
RemoveAt(s, k) == SubSeq(s, 1, k - 1) \o SubSeq(s, k + 1, Len(s))

\* handleButtonClick after its await, the write resolved
CopyResolved ==
  /\ \E k \in 1..Len(pendingCopies) :
       /\ activeBlockIndex' = pendingCopies[k].index
       /\ pendingCopies' = RemoveAt(pendingCopies, k)
  /\ lastEvent' = "copyOk"
  /\ UNCHANGED <<blocks, totalChars, pendingUploads, now, exports, MAX_CHARS>>
  /\ UNCHANGED splitVars

\* handleButtonClick after its await, the write rejected: the catch block logs
CopyRejected ==
  /\ \E k \in 1..Len(pendingCopies) :
       pendingCopies' = RemoveAt(pendingCopies, k)
  /\ lastEvent' = "copyFailed"
  /\ UNCHANGED <<blocks, activeBlockIndex, totalChars, pendingUploads, now, exports, MAX_CHARS>>
  /\ UNCHANGED splitVars

\* mutant of ExportTimers: the file is named by the 0-based index
ExportTimersZeroBased(bs) ==
  [i \in 1..Len(bs) |->
     LET index == i - 1
     IN [download |-> <<"bloque_", index, ".txt">>,
         content |-> bs[i].content,
         delay |-> index * 200]]

\* blocks.forEach of handleExportAll: per block, the Blob of its content, the
\* download name and the delay of the timer that clicks the link
ExportTimers(bs) ==
  [i \in 1..Len(bs) |->
     LET index == i - 1
     IN [download |-> <<"bloque_", index + 1, ".txt">>,
         content |-> bs[i].content,
         delay |-> index * 200]]

\* handleExportAll: returns without blocks or without confirmation, else
\* schedules one timer per block
handleExportAll ==
  /\ \E confirmed \in BOOLEAN :
       IF Len(blocks) = 0
       THEN /\ exports' = exports
            /\ lastEvent' = "exportEmpty"
       ELSE IF ~confirmed
       THEN /\ exports' = exports
            /\ lastEvent' = "exportDeclined"
       ELSE /\ Len(exports) < MaxExports
            /\ exports' = Append(exports, [snapshot |-> blocks,
                                           timers |-> ExportTimers(blocks),
                                           downloads |-> <<>>])
            /\ lastEvent' = "exportConfirmed"
  /\ UNCHANGED <<blocks, activeBlockIndex, totalChars, pendingUploads, pendingCopies,
                 now, MAX_CHARS>>
  /\ UNCHANGED splitVars

\* the position in ts of the timer that expires first (the earlier created
\* one among equal delays)
FirstDue(ts) ==
  CHOOSE k \in 1..Len(ts) :
    \A j \in 1..Len(ts) : ts[k].delay < ts[j].delay \/ (ts[k].delay = ts[j].delay /\ k <= j)

\* a setTimeout callback of handleExportAll runs: link.click() downloads the Blob
ExportTimerFires ==
  /\ \E e \in 1..Len(exports) :
       /\ exports[e].timers # <<>>
       /\ LET k == FirstDue(exports[e].timers)
              t == exports[e].timers[k]
          IN exports' = [exports EXCEPT
               ![e].downloads = Append(@, [download |-> t.download, content |-> t.content]),
               ![e].timers = RemoveAt(@, k)]
  /\ lastEvent' = "exportWrite"
  /\ UNCHANGED <<blocks, activeBlockIndex, totalChars, pendingUploads, pendingCopies,
                 now, MAX_CHARS>>
  /\ UNCHANGED splitVars

Next ==
  \/ handleFileUpload
  \/ OnLoadExtracted
  \/ OnLoadFailed
  \/ resetApp
  \/ handleButtonClick
  \/ CopyResolved
  \/ CopyRejected

Spec == Init /\ [][Next]_vars

\* uploads, resets and exports: handleExportAll and its timers read blocks and
\* set no state of the component, so Spec leaves them out and copies are left
\* out here
ExportNext ==
  \/ handleFileUpload
  \/ OnLoadExtracted
  \/ resetApp
  \/ handleExportAll
  \/ ExportTimerFires

ExportSpec == Init /\ [][ExportNext]_vars

\* a timer that is due fires
ExportSpecFair == ExportSpec /\ WF_vars(ExportTimerFires)

-----------------------------------------------------------------------------
(* Properties of one splitText call (SplitSpec) *)

Max(S) == CHOOSE x \in S : \A y \in S : y <= x

Swallowed(c) == c.next > c.to

\* the block contents in order, a line-break put back after each block whose
\* iteration advanced past one
RECURSIVE Rebuild(_, _)
Rebuild(bs, cs) ==
  IF bs = <<>> \/ cs = <<>> THEN <<>>
  ELSE bs[1].content \o (IF Swallowed(cs[1]) THEN <<LF>> ELSE <<>>)
       \o Rebuild(Tail(bs), Tail(cs))

\* C1: at every point of a call, the blocks emitted so far, concatenated in
\* order with exactly one line-break put back at each boundary where the loop
\* advanced past a line-break (the one after the last block included) and
\* nothing put back at a hard break, are exactly the normalized text up to the
\* current position; at the end that is the whole normalized text.
C1_Reassembly ==
  /\ Len(cuts) = Len(run.result)
  /\ \A i \in 1..Len(cuts) : cuts[i].next - cuts[i].to \in {0, 1}
  /\ Rebuild(run.result, cuts) = SubSeq(run.sanitizedText, 1, run.currentPos)
  /\ pc = "done" => Rebuild(run.result, cuts) = run.sanitizedText

\* a finished call with a hard break, a soft break inside the text and a
\* line-break swallowed after the last block
C1_Witness ==
  /\ pc = "done"
  /\ Len(cuts) >= 3
  /\ Swallowed(cuts[Len(cuts)])
  /\ \E i \in 1..(Len(cuts) - 1) : Swallowed(cuts[i])
  /\ \E i \in 1..(Len(cuts) - 1) : ~Swallowed(cuts[i])

\* C2: every block's content is at most MAX_CHARS characters long, the final
\* block included.
C2_LengthBound ==
  \A i \in 1..Len(run.result) : Len(run.result[i].content) <= MAX_CHARS

\* a finished call with a full-length block followed by a shorter final block
C2_Witness ==
  /\ pc = "done"
  /\ MAX_CHARS >= 2
  /\ Len(run.result) >= 2
  /\ \E i \in 1..(Len(run.result) - 1) : Len(run.result[i].content) = MAX_CHARS
  /\ Len(run.result[Len(run.result)].content) < MAX_CHARS

\* C3: the block types in output order match NORMAL* (SPECIAL_TRIGGER
\* POST_SPECIAL*)?: at most one SPECIAL_TRIGGER, everything after it
\* POST_SPECIAL, no POST_SPECIAL before it, no NORMAL once the flag is set.
C3_TypePattern ==
  LET bs == run.result
      n == Len(bs)
  IN /\ \A i \in 1..n : bs[i].type \in {NORMAL, SPECIAL_TRIGGER, POST_SPECIAL}
     /\ Cardinality({i \in 1..n : bs[i].type = SPECIAL_TRIGGER}) <= 1
     /\ \A i \in 1..n : \A j \in (i + 1)..n :
          /\ bs[i].type = SPECIAL_TRIGGER => bs[j].type = POST_SPECIAL
          /\ bs[i].type = POST_SPECIAL => bs[j].type = POST_SPECIAL
          /\ bs[j].type = NORMAL => bs[i].type = NORMAL
     /\ \A j \in 1..n : bs[j].type = POST_SPECIAL =>
          \E i \in 1..(j - 1) : bs[i].type = SPECIAL_TRIGGER
     /\ run.specialTriggered <=> \E i \in 1..n : bs[i].type = SPECIAL_TRIGGER

\* a finished call whose types are NORMAL, SPECIAL_TRIGGER, POST_SPECIAL with
\* the marker again in a block after the trigger
C3_Witness ==
  /\ pc = "done"
  /\ \E i \in 1..Len(run.result) :
       /\ i >= 2
       /\ i < Len(run.result)
       /\ run.result[i - 1].type = NORMAL
       /\ run.result[i].type = SPECIAL_TRIGGER
       /\ run.result[i + 1].type = POST_SPECIAL
  /\ \E j \in 1..Len(run.result) :
       run.result[j].type = POST_SPECIAL /\ includes(run.result[j].content, Marker)

\* C4: a block is SPECIAL_TRIGGER exactly when its own content contains the
\* marker and no earlier block's content does; a block is POST_SPECIAL exactly
\* when an earlier block's content contains the marker. Only block contents
\* count: an occurrence of the marker in the normalized text that lies in no
\* single block (cut by a hard break) changes no block's type.
C4_Detection ==
  LET bs == run.result
      has(i) == includes(bs[i].content, Marker)
  IN \A i \in 1..Len(bs) :
       /\ bs[i].type = SPECIAL_TRIGGER <=> (has(i) /\ \A j \in 1..(i - 1) : ~has(j))
       /\ bs[i].type = POST_SPECIAL <=> \E j \in 1..(i - 1) : has(j)
       /\ bs[i].type = NORMAL <=> \A j \in 1..i : ~has(j)

\* the position k is where an occurrence of the marker starts in s
MarkerAt(s, k) == k + Len(Marker) <= Len(s) /\ SubSeq(s, k + 1, k + Len(Marker)) = Marker

\* a finished call over a text holding the marker, the occurrence cut by a hard
\* break, every block NORMAL
C4_Witness ==
  /\ pc = "done"
  /\ \E k \in 0..Len(run.sanitizedText) :
       /\ MarkerAt(run.sanitizedText, k)
       /\ \E i \in 1..Len(cuts) :
            /\ cuts[i].to > k
            /\ cuts[i].to < k + Len(Marker)
            /\ ~Swallowed(cuts[i])
  /\ \A i \in 1..Len(run.result) : run.result[i].type = NORMAL

\* C5: in every iteration, with p the position before it and t = p + MAX_CHARS:
\* if t is at or past the end the chunk runs to the end; otherwise if there is a
\* line-break at some q with p < q <= t the boundary is the largest such q, the
\* chunk ends just before it and the next position is q + 1; otherwise the
\* boundary is t, the chunk has exactly MAX_CHARS characters and the next
\* position is t. The boundary is never p.
C5_Boundary ==
  LET s == run.sanitizedText
  IN /\ Len(cuts) = Len(run.result)
     /\ \A i \in 1..Len(cuts) :
       LET p == cuts[i].from
           t == p + MAX_CHARS
           breaks == {q \in (p + 1)..t : charIsLF(s, q)}
           chunk == run.result[i].content
       IN /\ cuts[i].to # p
          /\ IF t >= Len(s)
             THEN cuts[i].to = Len(s) /\ chunk = SubSeq(s, p + 1, Len(s))
             ELSE IF breaks # {}
             THEN /\ cuts[i].to = Max(breaks)
                  /\ chunk = SubSeq(s, p + 1, Max(breaks))
                  /\ cuts[i].next = Max(breaks) + 1
             ELSE /\ cuts[i].to = t
                  /\ Len(chunk) = MAX_CHARS
                  /\ cuts[i].next = t

\* a finished call with a soft break, and a hard-break iteration that started on
\* a line-break and did not take it as its boundary
C5_Witness ==
  /\ pc = "done"
  /\ \E i \in 1..Len(cuts) : Swallowed(cuts[i]) /\ cuts[i].next < Len(run.sanitizedText)
  /\ \E i \in 1..Len(cuts) :
       /\ charIsLF(run.sanitizedText, cuts[i].from)
       /\ cuts[i].from + MAX_CHARS < Len(run.sanitizedText)
       /\ cuts[i].to = cuts[i].from + MAX_CHARS
       /\ ~Swallowed(cuts[i])

\* every block emitted so far is non-empty, every iteration emitted one block and
\* moved the position strictly forward, and the call is over only with the
\* position at the length of the normalized text
C6_Progress ==
  /\ Len(cuts) = Len(run.result)
  /\ \A i \in 1..Len(run.result) : run.result[i].content # <<>>
  /\ \A i \in 1..Len(cuts) : cuts[i].next > cuts[i].from
  /\ run.currentPos <= Len(run.sanitizedText)
  /\ pc = "done" => run.currentPos = Len(run.sanitizedText)
  /\ Len(run.sanitizedText) = 0 => run.result = <<>>

\* C6: every call of splitText ends; until then each iteration emits one
\* non-empty block and strictly increases the position, and the loop is left
\* exactly with the position at the length of the normalized text, so an empty
\* input gives no block and no block is ever empty.
C6_Terminates ==
  /\ <>(pc = "done")
  /\ []C6_Progress
  /\ [][(pc = "loop" /\ pc' = "loop") =>
          (run'.currentPos > run.currentPos /\ Len(run'.result) = Len(run.result) + 1)]_vars
  /\ [][(pc = "loop" /\ pc' = "done") => run.currentPos = Len(run.sanitizedText)]_vars

\* a call that ended after several iterations
C6_Witness ==
  /\ pc = "done"
  /\ Len(run.result) >= 3
  /\ run.currentPos = Len(run.sanitizedText)

\* the indices of t that normalization keeps: all but each carriage-return that
\* a line-feed follows
KeptIdx(t) == {i \in 1..Len(t) : ~(t[i] = CR /\ i < Len(t) /\ t[i + 1] = LF)}

\* the characters of t at the indices K, in order
Select(t, K) ==
  [k \in 1..Cardinality(K) |->
     t[CHOOSE i \in K : Cardinality({j \in K : j <= i}) = k]]

\* C7: the normalized text is the input with each carriage-return/line-feed
\* pair turned into one line-feed and every other character (a lone
\* carriage-return, a lone line-feed) kept in place and order; each block's
\* content is the slice of the normalized text its iteration covered.
C7_Normalized ==
  /\ run.sanitizedText = Select(text, KeptIdx(text))
  /\ Len(cuts) = Len(run.result)
  /\ \A i \in 1..Len(run.result) :
       run.result[i].content = SubSeq(run.sanitizedText, cuts[i].from + 1, cuts[i].to)

\* a finished call over an input with two pairs, a lone carriage-return and a
\* lone line-feed, cut into several blocks
C7_Witness ==
  /\ pc = "done"
  /\ Len(run.result) >= 2
  /\ Cardinality({i \in 1..(Len(text) - 1) : text[i] = CR /\ text[i + 1] = LF}) >= 2
  /\ \E i \in 1..Len(text) : text[i] = CR /\ (i = Len(text) \/ text[i + 1] # LF)
  /\ \E i \in 1..Len(text) : text[i] = LF /\ (i = 1 \/ text[i - 1] # CR)

-----------------------------------------------------------------------------
(* Properties of repeated calls (RunsSpec) and of the App (Spec) *)

\* C8: nothing of a call survives into the next: every call starts at position
\* 0 with an empty result and the flag false over the normalization of its own
\* input, and a call on an input an earlier call was given (whatever calls came
\* between) returns the same contents and types; identifiers aside.
C8_NoCarryOver ==
  /\ (pc = "loop" /\ cuts = <<>>) =>
       /\ run.currentPos = 0
       /\ run.result = <<>>
       /\ ~run.specialTriggered
       /\ run.sanitizedText = replaceCRLF(text)
  /\ (pc = "done" /\ remembered # <<>>) =>
       (remembered[1].text = text => Outcome(run.result) = Outcome(remembered[1].result))

\* a call on the input of a remembered call that found the marker has ended:
\* same contents and types, other identifiers
C8_Witness ==
  /\ pc = "done"
  /\ remembered # <<>>
  /\ remembered[1].text = text
  /\ run.result # <<>>
  /\ run.result[1].type = SPECIAL_TRIGGER
  /\ run.result # remembered[1].result

\* C9: a step in which the extraction or the clipboard write fails leaves
\* blocks, totalChars and activeBlockIndex as they were; blocks change only in
\* a step that completes an upload or confirms a reset.
C9_FailuresKeepState ==
  [][/\ lastEvent' \in {"uploadFailed", "copyFailed"} =>
          UNCHANGED <<blocks, totalChars, activeBlockIndex>>
     /\ blocks' # blocks => lastEvent' \in {"uploadOk", "reset"}]_vars

\* an upload has just failed while blocks were shown and one was marked copied
C9_Witness ==
  /\ lastEvent = "uploadFailed"
  /\ blocks # <<>>
  /\ totalChars > 0
  /\ activeBlockIndex # Null

-----------------------------------------------------------------------------
(* Properties of exports (ExportSpecFair) *)

\* the downloads of export x so far are bloque_1.txt, bloque_2.txt, ... in that
\* order, each with the content the block of that number had when the export
\* was triggered; what is not yet downloaded is still scheduled
ExportInOrder(x) ==
  /\ Len(x.snapshot) >= 1
  /\ Len(x.downloads) + Len(x.timers) = Len(x.snapshot)
  /\ \A k \in 1..Len(x.downloads) :
       /\ x.downloads[k].download = <<"bloque_", k, ".txt">>
       /\ x.downloads[k].content = x.snapshot[k].content

ExportComplete(x) == Len(x.downloads) = Len(x.snapshot) /\ x.timers = <<>>

\* C11: a confirmed export of n >= 1 blocks eventually makes exactly n
\* downloads, in ascending order, the k-th named bloque_k.txt and holding the
\* content block k had when the export was triggered, whatever the block types
\* and whatever uploads or resets happen while timers are pending; without
\* blocks or without confirmation nothing is scheduled or downloaded.
C11_ExportWritesAll ==
  /\ [](\A e \in 1..Len(exports) : ExportInOrder(exports[e]))
  /\ []<>(\A e \in 1..Len(exports) : ExportComplete(exports[e]))
  /\ [][/\ lastEvent' \in {"exportEmpty", "exportDeclined"} => exports' = exports
        /\ Len(exports') > Len(exports) =>
             (lastEvent' = "exportConfirmed" /\ exports'[Len(exports')].snapshot = blocks)
        /\ \A e \in 1..Len(exports) :
             /\ exports'[e].snapshot = exports[e].snapshot
             /\ Len(exports'[e].downloads) >= Len(exports[e].downloads)]_vars

\* an export of several blocks of different types has made its last download
\* after the blocks it was triggered on were replaced
C11_Witness ==
  /\ lastEvent = "exportWrite"
  /\ exports # <<>>
  /\ ExportComplete(exports[1])
  /\ Len(exports[1].snapshot) >= 2
  /\ blocks # exports[1].snapshot
  /\ blocks # <<>>
  /\ \E i, j \in 1..Len(exports[1].snapshot) :
       exports[1].snapshot[i].type # exports[1].snapshot[j].type

-----------------------------------------------------------------------------
(* Properties of the copy mark (Spec) *)

\* C12: activeBlockIndex is always null or an index of the stored blocks, and a
\* resolved copy marks the block it copied: the block at the marked index of
\* the stored blocks is the one the click read, never a block of a sequence
\* stored since, never a missing one.
C12_ActiveIndexValid ==
  /\ [](activeBlockIndex = Null \/ (0 <= activeBlockIndex /\ activeBlockIndex < Len(blocks)))
  /\ [][lastEvent' = "copyOk" =>
          /\ activeBlockIndex' < Len(blocks')
          /\ \E k \in 1..Len(pendingCopies) :
               /\ pendingCopies[k].index = activeBlockIndex'
               /\ pendingCopies[k].block = blocks'[activeBlockIndex' + 1]]_vars

====
